---- MODULE Spec2Model ----
(***************************************************************************)
(* Model of simulated_training.py: the mask builders, the coordinate       *)
(* extractor (get_centers_single_image), the corpus aggregator             *)
(* (get_centers) and the balanced sampler (make_labelled_sets).            *)
(*                                                                         *)
(* Truth values are held in hundredths: 0.25 is 25, 0.75 is 75, 1.0 is 100.*)
(* A boolean mask is the set of its true pixels <<row, column>>, 0-based.  *)
(* A 3 x K coordinate array is the sequence of its K columns, each a       *)
(* triple <<row, column, image index>>.                                    *)
(***************************************************************************)
EXTENDS Integers, Sequences, FiniteSets

VARIABLES
    pc,             \* which function is to run / has run
    \* make_damaged_spot_mask and get_centers_single_image
    truth,          \* the truth field handed to the single-image functions
    border,         \* the border margin
    im_no,          \* the image index handed to get_centers_single_image
    damaged_spot,   \* the value make_damaged_spot_mask returned
    results,        \* the dict get_centers_single_image returned
    \* get_centers
    truths,         \* the sequence of truth fields
    centers,        \* the list of per-image dicts built by the loop
    result,         \* the dict of pools get_centers returned
    \* make_labelled_sets
    pools,          \* its argument `centers`: category name -> pool
    test_split,     \* its argument test_split, a fraction <<numerator, denominator>>
    key_order,      \* the order in which `for name in centers` visits the keys
    choices,        \* name -> the indices drawn from that pool
    center_set,     \* the concatenated draws
    label_set,      \* the concatenated labels
    order,          \* the permutation drawn
    n_training,
    training_centers, training_labels, test_centers, test_labels

imageVars == <<truth, im_no, damaged_spot, results>>
corpusVars == <<truths, centers, result>>
localVars == <<choices, center_set, label_set, order, n_training>>
outputVars == <<training_centers, training_labels, test_centers, test_labels>>
setsVars == <<pools, test_split, key_order, localVars, outputVars>>
vars == <<pc, border, imageVars, corpusVars, setsVars>>

----------------------------------------------------------------------------
(* Bounds of the explored inputs.                                          *)

MaxH == 3
MaxW == 6
MaxBorder == 1

\* Truth values explored: background, the 0.75 threshold itself, a damaged
\* value strictly between 0.75 and 1, and a clean spot.
Levels == {0, 75, 90, 100}

Min(a, b) == IF a < b THEN a ELSE b
Max(a, b) == IF a > b THEN a ELSE b

----------------------------------------------------------------------------
(* Arrays.                                                                 *)

Names == {"inside", "outside", "inside_damaged", "outside_damaged",
          "block_border", "between"}

Pixels(shape) == { <<r, c>> : r \in 0 .. shape[1] - 1, c \in 0 .. shape[2] - 1 }

\* Fields of one shape: a uniform background carrying one rectangular patch
\* (rows r1..r2, columns c1..c2) of another value.
Fields(shape) ==
    { [shape |-> shape,
       v |-> [p \in Pixels(shape) |->
                IF /\ q[1] <= p[1] /\ p[1] <= q[2]
                   /\ q[3] <= p[2] /\ p[2] <= q[4]
                THEN q[5] ELSE q[6]]] :
         q \in { <<r1, r2, c1, c2, patch, b>> :
                    r1 \in 0 .. shape[1] - 1, r2 \in 0 .. shape[1] - 1,
                    c1 \in 0 .. shape[2] - 1, c2 \in 0 .. shape[2] - 1,
                    patch \in Levels, b \in Levels } }

\* truth > 0.75, truth < 0.25, (0.75 < truth) & (truth < 1) as masks
Above75(t) == {p \in Pixels(t.shape) : 75 < t.v[p]}
Below25(t) == {p \in Pixels(t.shape) : t.v[p] < 25}
Below100(t) == {p \in Pixels(t.shape) : t.v[p] < 100}

\* sp.ones((3, 3)) as a structuring element: the offsets it covers
Ones3x3 == { <<dr, dc>> : dr \in -1 .. 1, dc \in -1 .. 1 }

\* One pass of scipy.ndimage.binary_dilation, border_value = 0
Dilate(mask, shape) ==
    { p \in Pixels(shape) :
        \E d \in Ones3x3 : <<p[1] + d[1], p[2] + d[2]>> \in mask }

\* One pass of scipy.ndimage.binary_erosion, border_value = 0: a pixel survives
\* only when every tap of the structuring element is true, and a tap outside
\* the array reads the border value, false.
Erode(mask, shape) ==
    { p \in Pixels(shape) :
        \A d \in Ones3x3 : <<p[1] + d[1], p[2] + d[2]>> \in mask }

\* scipy.ndimage.binary_dilation with iterations >= 1: the pass is repeated
\* until the iterations are used up or a pass changes nothing.
RECURSIVE binary_dilation(_, _, _)
binary_dilation(mask, shape, iterations) ==
    IF iterations = 0 THEN mask
    ELSE LET grown == Dilate(mask, shape)
         IN  IF grown = mask THEN mask
             ELSE binary_dilation(grown, shape, iterations - 1)

\* scipy.ndimage.binary_closing, iterations = 1: dilation, then erosion
binary_closing(mask, shape) == Erode(Dilate(mask, shape), shape)

----------------------------------------------------------------------------
(* The mask builders.                                                      *)

\* Variant: the closed area is returned as it is, without the final
\* intersection with 0.75 < truth.
make_damaged_spot_mask_unmasked(t) ==
    binary_closing(Above75(t) \cap Below100(t), t.shape)

make_damaged_spot_mask(t) ==
    LET damaged_pixel == Above75(t) \cap Below100(t)
        damaged_area == binary_closing(damaged_pixel, t.shape)
        spot == damaged_area \cap Above75(t)
    IN  spot

make_outside_near_damaged_spot_mask(t) ==
    LET spot == make_damaged_spot_mask(t)
        near_damaged_spot == binary_dilation(spot, t.shape, 5)
    IN  near_damaged_spot \cap Below25(t)

make_block_border_mask(t) ==
    LET very_near_block == binary_dilation(Above75(t), t.shape, 3)
        near_block == binary_dilation(Above75(t), t.shape, 15)
    IN  near_block \ very_near_block

make_between_spot_mask(t) ==
    LET near_spot == binary_dilation(Above75(t), t.shape, 4)
    IN  near_spot \cap Below25(t)

----------------------------------------------------------------------------
(* The coordinate extractor.                                               *)

\* Python's normalisation of one slice bound against a length n
SliceBound(i, n) == IF i < 0 THEN Max(i + n, 0) ELSE Min(i, n)

\* The indices a[start:stop] selects on an axis of length n
Slice(start, stop, n) ==
    { k \in 0 .. n - 1 : SliceBound(start, n) <= k /\ k < SliceBound(stop, n) }

\* Variant: the slices are open-ended, [border:, border:].
AwayFromBorderOpenEnded(shape, b) ==
    { <<r, c>> : r \in Slice(b, shape[1], shape[1]), c \in Slice(b, shape[2], shape[2]) }

\* away_from_border[border:-border, border:-border] = True
AwayFromBorder(shape, b) ==
    { <<r, c>> : r \in Slice(b, 0 - b, shape[1]), c \in Slice(b, 0 - b, shape[2]) }

\* indices[:, mask]: the columns of the true pixels, in row-major order
RECURSIVE SelectFrom(_, _, _, _)
SelectFrom(k, mask, shape, n) ==
    IF k >= shape[1] * shape[2] THEN << >>
    ELSE LET p == << k \div shape[2], k % shape[2] >>
         IN  (IF p \in mask THEN << <<p[1], p[2], n>> >> ELSE << >>)
               \o SelectFrom(k + 1, mask, shape, n)

Select(mask, shape, n) == SelectFrom(0, mask, shape, n)

CategoryMask(name, t) ==
    CASE name = "inside" -> Above75(t)
      [] name = "outside" -> Below25(t)
      [] name = "inside_damaged" -> make_damaged_spot_mask(t)
      [] name = "outside_damaged" -> make_outside_near_damaged_spot_mask(t)
      [] name = "block_border" -> make_block_border_mask(t)
      [] name = "between" -> make_between_spot_mask(t)

get_centers_single_image(t, n, b) ==
    LET away_from_border == AwayFromBorder(t.shape, b)
    IN  [name \in Names |->
            Select(CategoryMask(name, t) \cap away_from_border, t.shape, n)]


----------------------------------------------------------------------------
(* The corpus aggregator.                                                  *)

\* Variant: the arrays are joined last to first.
RECURSIVE ConcatenateReversed(_)
ConcatenateReversed(arrays) ==
    IF arrays = << >> THEN << >>
    ELSE ConcatenateReversed(Tail(arrays)) \o Head(arrays)

\* sp.concatenate(arrays, 1): the columns of each array, in list order
RECURSIVE Concatenate(_)
Concatenate(arrays) ==
    IF arrays = << >> THEN << >>
    ELSE Head(arrays) \o Concatenate(Tail(arrays))

\* The index enumerate() pairs with the k-th element (k counted from 1)
EnumerateIndex(k) == k - 1

\* The list `centers` after the first k iterations of the loop of get_centers
RECURSIVE CentersLoop(_, _, _)
CentersLoop(ts, k, b) ==
    IF k = 0 THEN << >>
    ELSE Append(CentersLoop(ts, k - 1, b),
                get_centers_single_image(ts[k], EnumerateIndex(k), b))

\* result[name] = sp.concatenate([cs[name] for cs in centers], 1)
PoolsOf(cs) ==
    [name \in Names |-> Concatenate([i \in 1 .. Len(cs) |-> cs[i][name]])]

----------------------------------------------------------------------------
(* The balanced sampler.                                                   *)

\* LABEL_ENUM
LABEL_ENUM == [inside |-> 1, outside |-> 0, inside_damaged |-> 1,
               outside_damaged |-> 0, block_border |-> 0, between |-> 0]

\* counts, at a scale of 1 : 100000 (2e5 is 2, 1e5 is 1)
counts == [inside |-> 2, outside |-> 1, inside_damaged |-> 2,
           outside_damaged |-> 1, block_border |-> 1, between |-> 1]

\* Variant: the draw is without replacement, and raises when q exceeds w.
ChoiceWithoutReplacement(w, q) ==
    IF w = 0 THEN {}
    ELSE { f \in [1 .. q -> 0 .. w - 1] : \A i, j \in 1 .. q : f[i] = f[j] => i = j }

\* Variant: an empty population yields an empty draw instead of raising.
ChoiceSilentOnEmpty(w, q) ==
    IF w = 0 THEN { << >> } ELSE [1 .. q -> 0 .. w - 1]

\* sp.random.choice(sp.arange(w), q): the arrays it can return, q indices
\* drawn with replacement from 0 .. w-1. numpy raises ValueError on an empty
\* population, so for w = 0 there is no array it can return.
ChoiceOutcomes(w, q) ==
    IF w = 0 THEN {} ELSE [1 .. q -> 0 .. w - 1]

\* centers[name][:, choices[name]]
Take(pool, idx) == [k \in 1 .. Len(idx) |-> pool[idx[k] + 1]]

\* sp.repeat(value, n)
Repeat(value, n) == [k \in 1 .. n |-> value]

\* center_sets, label_sets
CenterSets(ps, ch) == [name \in Names |-> Take(ps[name], ch[name])]
LabelSets == [name \in Names |-> Repeat(LABEL_ENUM[name], counts[name])]

\* sp.concatenate([sets[name] for name in centers]), keys visited in order ko
ConcatByKey(sets, ko) == Concatenate([i \in 1 .. Len(ko) |-> sets[ko[i]]])

Rotation(n, k) == [i \in 1 .. n |-> ((i - 1 + k) % n) + 1]
Reversed(s) == [i \in 1 .. Len(s) |-> s[Len(s) + 1 - i]]

\* Variant: positions drawn independently, so that one can repeat.
OrdersWithRepeats(n) ==
    IF n = 0 THEN { << >> }
    ELSE { [i \in 1 .. n |-> IF i = n THEN r[1] ELSE r[i]] :
             r \in { Rotation(n, k) : k \in 0 .. n - 1 } }

\* sp.random.permutation(sp.arange(n)): permutations it can return (as
\* 1-based positions). The explored ones are the rotations of 1..n and their
\* reversals.
Orders(n) ==
    IF n = 0 THEN { << >> }
    ELSE { Rotation(n, k) : k \in 0 .. n - 1 }
           \cup { Reversed(Rotation(n, k)) : k \in 0 .. n - 1 }

\* Variant: the labels are left in their order before the shuffle.
ordered_labels_unshuffled(ls, o) == [i \in 1 .. Len(o) |-> ls[i]]

\* center_set[:, order], label_set[order]
ordered_centers(cs, o) == [i \in 1 .. Len(o) |-> cs[o[i]]]
ordered_labels(ls, o) == [i \in 1 .. Len(o) |-> ls[o[i]]]

\* Variant: the test share is rounded down instead of the training share.
SplitIndexTestFloor(s, n) == n - ((s[1] * n) \div s[2])

\* int((1 - test_split) * n) for test_split = s[1] / s[2]
SplitIndex(s, n) == ((s[2] - s[1]) * n) \div s[2]

\* Variant: the test part starts one column late.
TestPartLate(a, k) == SubSeq(a, k + 2, Len(a))

\* a[:k] and a[k:]
TrainPart(a, k) == SubSeq(a, 1, k)
TestPart(a, k) == SubSeq(a, k + 1, Len(a))

----------------------------------------------------------------------------
(* Inputs explored.                                                        *)

MaxImages == 2
MaxPool == 2

NoResults == [name \in Names |-> << >>]
NoField == [shape |-> <<1, 1>>, v |-> [p \in Pixels(<<1, 1>>) |-> 0]]

\* Fields of the corpus: 3 x 4, uniform but for the pixel <<1, 1>>, one of the
\* two pixels a border of 1 leaves.
CorpusFields ==
    { f \in Fields(<<3, 4>>) :
        \A p \in Pixels(<<3, 4>>) \ { <<1, 1>> } : f.v[p] = f.v[<<0, 0>>] }

SeqsUpTo(S, n) == UNION { [1 .. k -> S] : k \in 1 .. n }

\* Pools as get_centers builds them: distinct columns. The categories that
\* lie inside spots share their pixels, and so do those that lie outside.
PoolRow(name) ==
    CASE name \in {"inside", "inside_damaged"} -> 1
      [] name \in {"outside", "outside_damaged", "between"} -> 2
      [] name = "block_border" -> 3

Pool(name, w) == [k \in 1 .. w |-> <<PoolRow(name), k, 0>>]

\* test_split as <<numerator, denominator>>: 0, 0.1, 0.5, 1
Splits == { <<0, 1>>, <<1, 10>>, <<1, 2>>, <<1, 1>> }

\* Orders in which a dict's keys can be visited
KeyOrders ==
    { << "inside", "outside", "inside_damaged", "outside_damaged", "block_border", "between" >>,
      << "between", "block_border", "outside_damaged", "inside_damaged", "outside", "inside" >> }

----------------------------------------------------------------------------
(* Initial states: the arguments of the call.                              *)

IdleImage ==
    /\ truth = NoField
    /\ im_no = 0
    /\ damaged_spot = {}
    /\ results = NoResults

IdleCorpus ==
    /\ truths = << >>
    /\ centers = << >>
    /\ result = NoResults

NoLocals ==
    /\ choices = NoResults
    /\ center_set = << >>
    /\ label_set = << >>
    /\ order = << >>
    /\ n_training = 0

NoOutputs ==
    /\ training_centers = << >>
    /\ training_labels = << >>
    /\ test_centers = << >>
    /\ test_labels = << >>

IdleSets ==
    /\ pools = NoResults
    /\ test_split = <<0, 1>>
    /\ key_order = << >>
    /\ NoLocals
    /\ NoOutputs

Init ==
    /\ pc = "image"
    /\ \E h \in 1 .. MaxH, w \in 1 .. MaxW :
          truth \in Fields(<<h, w>>)
    /\ border \in 0 .. MaxBorder
    /\ im_no \in 0 .. 1
    /\ damaged_spot = {}
    /\ results = NoResults
    /\ IdleCorpus
    /\ IdleSets

InitCorpus ==
    /\ pc = "corpus"
    /\ truths \in SeqsUpTo(CorpusFields, MaxImages)
    /\ border \in 0 .. MaxBorder
    /\ centers = << >>
    /\ result = NoResults
    /\ IdleImage
    /\ IdleSets

InitSets ==
    /\ pc = "sets"
    /\ \E w \in [Names -> 0 .. MaxPool] :
          pools = [name \in Names |-> Pool(name, w[name])]
    /\ test_split \in Splits
    /\ key_order \in KeyOrders
    /\ NoLocals
    /\ NoOutputs
    /\ border = 0
    /\ IdleImage
    /\ IdleCorpus

----------------------------------------------------------------------------
(* Actions: one per function.                                              *)

MakeDamagedSpotMask ==
    /\ pc = "image"
    /\ damaged_spot' = make_damaged_spot_mask(truth)
    /\ pc' = "mask"
    /\ UNCHANGED <<border, truth, im_no, results, corpusVars, setsVars>>

GetCentersSingleImage ==
    /\ pc = "image"
    /\ results' = get_centers_single_image(truth, im_no, border)
    /\ pc' = "centers"
    /\ UNCHANGED <<border, truth, im_no, damaged_spot, corpusVars, setsVars>>

GetCenters ==
    /\ pc = "corpus"
    /\ centers' = CentersLoop(truths, Len(truths), border)
    /\ result' = PoolsOf(centers')
    /\ pc' = "aggregated"
    /\ UNCHANGED <<border, truths, imageVars, setsVars>>

\* The draw raises: nothing is returned.
MakeLabelledSetsRaises ==
    /\ pc = "sets"
    /\ \E name \in Names : ChoiceOutcomes(Len(pools[name]), counts[name]) = {}
    /\ pc' = "raised"
    /\ UNCHANGED <<border, imageVars, corpusVars, setsVars>>

MakeLabelledSetsReturns ==
    /\ pc = "sets"
    /\ \A name \in Names : ChoiceOutcomes(Len(pools[name]), counts[name]) # {}
    /\ \E c1 \in ChoiceOutcomes(Len(pools["inside"]), counts["inside"]),
          c2 \in ChoiceOutcomes(Len(pools["outside"]), counts["outside"]),
          c3 \in ChoiceOutcomes(Len(pools["inside_damaged"]), counts["inside_damaged"]),
          c4 \in ChoiceOutcomes(Len(pools["outside_damaged"]), counts["outside_damaged"]),
          c5 \in ChoiceOutcomes(Len(pools["block_border"]), counts["block_border"]),
          c6 \in ChoiceOutcomes(Len(pools["between"]), counts["between"]) :
          choices' = [inside |-> c1, outside |-> c2, inside_damaged |-> c3,
                      outside_damaged |-> c4, block_border |-> c5, between |-> c6]
    /\ center_set' = ConcatByKey(CenterSets(pools, choices'), key_order)
    /\ label_set' = ConcatByKey(LabelSets, key_order)
    /\ order' \in Orders(Len(center_set'))
    /\ n_training' = SplitIndex(test_split, Len(center_set'))
    /\ training_centers' = TrainPart(ordered_centers(center_set', order'), n_training')
    /\ training_labels' = TrainPart(ordered_labels(label_set', order'), n_training')
    /\ test_centers' = TestPart(ordered_centers(center_set', order'), n_training')
    /\ test_labels' = TestPart(ordered_labels(label_set', order'), n_training')
    /\ pc' = "returned"
    /\ UNCHANGED <<border, imageVars, corpusVars, pools, test_split, key_order>>

MakeLabelledSets == MakeLabelledSetsRaises \/ MakeLabelledSetsReturns

Next == MakeDamagedSpotMask \/ GetCentersSingleImage

Spec == Init /\ [][Next]_vars
SpecCorpus == InitCorpus /\ [][GetCenters]_vars
SpecSets == InitSets /\ [][MakeLabelledSets]_vars

----------------------------------------------------------------------------
(* Properties.                                                             *)

Range(f) == { f[i] : i \in DOMAIN f }

\* Pixels at least b from every edge
Eligible(shape, b) ==
    { p \in Pixels(shape) :
        /\ b <= p[1] /\ p[1] < shape[1] - b
        /\ b <= p[2] /\ p[2] < shape[2] - b }

Damaged(t, p) == 75 < t.v[p] /\ t.v[p] < 100

\* C1 as stated: every true pixel of make_damaged_spot_mask(T) satisfies
\* 0.75 < T < 1; no pixel with T = 1 is ever in the mask.
C1_WithinDamagedRange ==
    pc = "mask" => \A p \in damaged_spot : Damaged(truth, p)

\* C1 amended: every true pixel of make_damaged_spot_mask(T) satisfies
\* 0.75 < T, and is a damaged pixel (0.75 < T < 1) or touches one; a pixel
\* with T = 1 that the closing fills stays in the mask.
C1_AboveThresholdNearDamage ==
    pc = "mask" =>
        \A p \in damaged_spot :
            /\ 75 < truth.v[p]
            /\ \E q \in Pixels(truth.shape) :
                  /\ <<q[1] - p[1], q[2] - p[2]>> \in Ones3x3
                  /\ Damaged(truth, q)

\* A mask that holds a pixel with T = 1
C1_Witness ==
    /\ pc = "mask"
    /\ \E p \in damaged_spot : truth.v[p] = 100

\* C2: every coordinate get_centers_single_image returns, in any of the six
\* arrays, has border <= r < H - border and border <= c < W - border.
C2_CoordinatesAwayFromBorder ==
    pc = "centers" =>
        \A name \in Names : \A i \in 1 .. Len(results[name]) :
            LET col == results[name][i]
            IN  /\ border <= col[1] /\ col[1] < truth.shape[1] - border
                /\ border <= col[2] /\ col[2] < truth.shape[2] - border

\* A positive border and a coordinate returned
C2_Witness ==
    /\ pc = "centers"
    /\ border >= 1
    /\ \E name \in Names : results[name] # << >>

\* C3 as stated: for every border >= 0, border = 0 included, each array holds
\* exactly the pixels of its category's mask that lie at least `border` from
\* every edge, each once (in row-major order, tagged with the image index).
C3_ExactlyTheEligiblePixels ==
    pc = "centers" =>
        \A name \in Names :
            results[name] =
                Select(CategoryMask(name, truth) \cap Eligible(truth.shape, border),
                       truth.shape, im_no)

\* C4: each pool is the concatenation, in image order, of the per-image arrays
\* of its category; row 2 of a column is the position of its image in the
\* input; the pool's width is the sum of the per-image widths.
RECURSIVE SumOfWidths(_, _, _)
SumOfWidths(name, ts, b) ==
    IF ts = << >> THEN 0
    ELSE Len(get_centers_single_image(ts[Len(ts)], Len(ts) - 1, b)[name])
           + SumOfWidths(name, SubSeq(ts, 1, Len(ts) - 1), b)

ColumnsOfImage(pool, n) ==
    LET FromImage(col) == col[3] = n
    IN  SelectSeq(pool, FromImage)

C4_PoolIsConcatenationInImageOrder ==
    pc = "aggregated" =>
        \A name \in Names :
            LET pool == result[name]
            IN  /\ Len(pool) = SumOfWidths(name, truths, border)
                /\ \A j \in 1 .. Len(pool) : pool[j][3] \in 0 .. Len(truths) - 1
                /\ \A j \in 1 .. Len(pool) - 1 : pool[j][3] <= pool[j + 1][3]
                /\ \A n \in 1 .. Len(truths) :
                      ColumnsOfImage(pool, n - 1) =
                          get_centers_single_image(truths[n], n - 1, border)[name]

\* Two images that both contribute to one pool, by different amounts
C4_Witness ==
    /\ pc = "aggregated"
    /\ Len(truths) >= 2
    /\ \E name \in Names :
          /\ centers[1][name] # << >>
          /\ centers[2][name] # << >>
          /\ Len(centers[1][name]) # Len(centers[2][name])

QuotaSum ==
    counts["inside"] + counts["outside"] + counts["inside_damaged"]
      + counts["outside_damaged"] + counts["block_border"] + counts["between"]

\* The train set followed by the test set
OutCenters == training_centers \o test_centers
OutLabels == training_labels \o test_labels

\* C5 as stated: the test set has exactly floor(s * sum(q_i)) samples.
C5_TestIsFloorOfShare ==
    pc = "returned" =>
        Len(test_centers) = (test_split[1] * QuotaSum) \div test_split[2]

\* C5 amended: the test set has exactly sum(q_i) - floor((1 - s) * sum(q_i))
\* samples, which is s * sum(q_i) rounded up.
C5_TestIsShareRoundedUp ==
    pc = "returned" =>
        LET up == (test_split[1] * QuotaSum + test_split[2] - 1) \div test_split[2]
        IN  /\ Len(test_centers) = up
            /\ Len(test_labels) = up
            /\ Len(training_centers) = QuotaSum - up
            /\ Len(training_labels) = QuotaSum - up

\* A split whose test share s * sum(q_i) is not a whole number
C5_Witness ==
    /\ pc = "returned"
    /\ (test_split[1] * QuotaSum) % test_split[2] # 0

Count(x, a) == Cardinality({ i \in DOMAIN a : a[i] = x })

RECURSIVE CountDrawn(_, _)
CountDrawn(x, names) ==
    IF names = {} THEN 0
    ELSE LET name == CHOOSE m \in names : TRUE
         IN  Cardinality({ k \in DOMAIN choices[name] :
                             pools[name][choices[name][k] + 1] = x })
               + CountDrawn(x, names \ {name})

\* C6: train followed by test is the shuffled sample array, a permutation of
\* the concatenated per-category draws: every drawn sample lands in exactly
\* one of them, and len(train) + len(test) is the sum of the quotas.
C6_TrainThenTestIsThePermutedDraws ==
    pc = "returned" =>
        /\ Len(training_centers) + Len(test_centers) = QuotaSum
        /\ Len(training_labels) + Len(test_labels) = QuotaSum
        /\ Range(order) = 1 .. Len(center_set)
        /\ Len(OutCenters) = Len(order)
        /\ \A i \in 1 .. Len(OutCenters) : OutCenters[i] = center_set[order[i]]
        /\ \A name \in Names : \A x \in Range(pools[name]) :
              Count(x, OutCenters) = CountDrawn(x, Names)

\* Both parts non-empty, under a shuffle that moves samples
C6_Witness ==
    /\ pc = "returned"
    /\ training_centers # << >>
    /\ test_centers # << >>
    /\ \E i \in 1 .. Len(order) : order[i] # i

\* Samples of the keys visited before the i-th key
RECURSIVE QuotaBefore(_, _)
QuotaBefore(ko, i) ==
    IF i <= 1 THEN 0 ELSE QuotaBefore(ko, i - 1) + counts[ko[i - 1]]

\* The key whose draws hold position j of the concatenated samples
SlotOf(ko, j) ==
    CHOOSE i \in 1 .. Len(ko) :
        QuotaBefore(ko, i) < j /\ j <= QuotaBefore(ko, i) + counts[ko[i]]

ExpectedLabel(name) == IF name \in {"inside", "inside_damaged"} THEN 1 ELSE 0

\* C7: every output pair (coordinate, label) is one pair of before the
\* shuffle, and its label is the fixed label of the category from whose pool
\* the coordinate was drawn.
C7_LabelsStayWithTheirCoordinates ==
    pc = "returned" =>
        /\ Len(OutLabels) = Len(OutCenters)
        /\ \A i \in 1 .. Len(OutCenters) :
              LET j == order[i]
                  slot == SlotOf(key_order, j)
                  name == key_order[slot]
                  k == j - QuotaBefore(key_order, slot)
              IN  /\ OutCenters[i] = pools[name][choices[name][k] + 1]
                  /\ OutLabels[i] = ExpectedLabel(name)
                  /\ <<OutCenters[i], OutLabels[i]>> = <<center_set[j], label_set[j]>>

\* A shuffle that brings a sample of label 1 to a place where a sample of
\* label 0 stood
C7_Witness ==
    /\ pc = "returned"
    /\ \E i \in 1 .. Len(order) : label_set[i] = 0 /\ OutLabels[i] = 1

\* C8: the draw of a category whose pool is not empty yields exactly `quota`
\* samples whatever the pool width, each a column of that pool; a call whose
\* pools are all non-empty returns them.
C8_QuotaDrawnFromPool ==
    /\ \A name \in Names :
          Len(pools[name]) >= 1 =>
              LET outs == ChoiceOutcomes(Len(pools[name]), counts[name])
              IN  /\ outs # {}
                  /\ \A o \in outs :
                        /\ Len(o) = counts[name]
                        /\ Range(Take(pools[name], o)) \subseteq Range(pools[name])
    /\ (pc # "sets" /\ \A name \in Names : Len(pools[name]) >= 1) => pc = "returned"
    /\ pc = "returned" =>
          \A slot \in 1 .. Len(key_order) :
              LET name == key_order[slot]
              IN  /\ Len(choices[name]) = counts[name]
                  /\ \A k \in 1 .. counts[name] :
                        center_set[QuotaBefore(key_order, slot) + k] \in Range(pools[name])

\* A returned call with a quota larger than the pool it is drawn from
C8_Witness ==
    /\ pc = "returned"
    /\ \E name \in Names : Len(pools[name]) < counts[name]

\* C9: with an empty pool (every quota is positive) the call ends in an error
\* and returns no train or test set.
C9_EmptyPoolRaises ==
    (pc # "sets" /\ \E name \in Names : Len(pools[name]) = 0 /\ counts[name] > 0) =>
        /\ pc = "raised"
        /\ training_centers = << >> /\ training_labels = << >>
        /\ test_centers = << >> /\ test_labels = << >>

\* A call that raised though some pool was not empty
C9_Witness ==
    /\ pc = "raised"
    /\ \E name \in Names : Len(pools[name]) = 0
    /\ \E name \in Names : Len(pools[name]) >= 1

\* C10 as stated: no coordinate record of the train set appears in the test set.
C10_NoRecordInBothSets ==
    pc = "returned" => Range(training_centers) \cap Range(test_centers) = {}

\* C10 amended: train and test are disjoint as sets of drawn samples: no
\* position of the concatenated draws lands in both, and each lands once.
\* (A coordinate record can be in both: it can be drawn more than once.)
C10_NoDrawnSampleInBothSets ==
    pc = "returned" =>
        LET trainPos == { order[i] : i \in 1 .. Len(training_centers) }
            testPos == { order[i] : i \in Len(training_centers) + 1 .. Len(order) }
        IN  /\ trainPos \cap testPos = {}
            /\ Cardinality(trainPos) = Len(training_centers)
            /\ Cardinality(testPos) = Len(test_centers)
            /\ \A i \in 1 .. Len(training_centers) :
                  training_centers[i] = center_set[order[i]]
            /\ \A i \in 1 .. Len(test_centers) :
                  test_centers[i] = center_set[order[Len(training_centers) + i]]

\* One coordinate record in both sets
C10_Witness ==
    /\ pc = "returned"
    /\ Range(training_centers) \cap Range(test_centers) # {}

====
